---------------------------- MODULE Spec2Model ----------------------------
(***************************************************************************)
(* ScenarioSelectorControl (src/src/ScenarioSelectorControl.tsx): a panel  *)
(* listing scenario presets.  A click on a preset hands the caller a       *)
(* callback; the callback, when the caller invokes it with a body, moves   *)
(* that body into the preset's orbit, sends a message and hides the panel. *)
(*                                                                         *)
(* Numbers.  Every angle of the program is a multiple of pi/2, so every    *)
(* quaternion component lies in Z[sqrt 2]/2.  A number is the pair <<a,b>> *)
(* standing for (a + b*sqrt(2))/2, and the arithmetic on it is exact.      *)
(* Angles are counted in units of pi/2.  Distances are counted in units of *)
(* 1000/AU, and an eccentricity in units of 1/EccScale, so that the vector *)
(* (0, 1 - eccentricity, 0) is kept in units of 1/EccScale.                *)
(***************************************************************************)
EXTENDS Integers, Sequences, FiniteSets, TLC

VARIABLES
    visible,        \* this.state.visible
    lastEvent,      \* the method or handler of the component entered last, with its argument
    onSelectArgs,   \* the callbacks the last click passed to props.onSelectScenario
    callback,       \* the callback the caller holds: <<>> or <<scenario>>
    bodies,         \* the names CelestialBody.findBody resolves
    select_obj,     \* the body the caller passes to the callback
    pc,             \* "idle", or the line of the callback about to run
    scenario,       \* the callback's bound preset: <<>> or <<scenario>>
    ascending_node, \* local of the callback (line 85)
    eccentricity,   \* local of the callback (line 86)
    rotation,       \* local of the callback (line 87): <<>> or <<quaternion>>
    parent,         \* local of the callback (line 92): <<>> (null) or <<name>>
    ret,            \* the callback's return value: <<>> or <<boolean>>
    calls,          \* what the running callback has done so far, in order
    propCalls,      \* the props invoked since construction
    entry           \* select_obj, visible and the preset when the callback was entered

vars == <<visible, lastEvent, onSelectArgs, callback, bodies, select_obj, pc,
          scenario, ascending_node, eccentricity, rotation, parent, ret,
          calls, propCalls, entry>>

frame == <<scenario, ascending_node, eccentricity, rotation, parent, ret,
           calls, entry>>

-----------------------------------------------------------------------------
(* Bounds of the model *)

\* eccentricities are the multiples k/EccScale, 0 <= k < EccScale
EccScale == 2
\* totalDeltaV of a body ranges over 0..MaxDeltaV
MaxDeltaV == 1
\* ignitionCount of a body ranges over 0..MaxIgnition
MaxIgnition == 1

-----------------------------------------------------------------------------
(* Exact arithmetic on (a + b*sqrt(2))/2 *)

Num(n) == <<2 * n, 0>>

Neg(p) == <<-p[1], -p[2]>>

\* the sum, over the same denominator
Plus(p, q) == <<p[1] + q[1], p[2] + q[2]>>

Minus(p, q) == Plus(p, Neg(q))

\* the product's numerator over the denominator 4
Times(p, q) == <<p[1] * q[1] + 2 * p[2] * q[2], p[1] * q[2] + p[2] * q[1]>>

\* a numerator over 4 brought back over 2
Half(p) == <<p[1] \div 2, p[2] \div 2>>

\* a number times an integer
Scale(p, n) == <<p[1] * n, p[2] * n>>

\* Math.PI, in units of pi/2
PI == 2

\* cos(k*pi/4)
Cos(k) ==
    CASE k % 8 = 0 -> <<2, 0>>
      [] k % 8 = 1 -> <<0, 1>>
      [] k % 8 = 2 -> <<0, 0>>
      [] k % 8 = 3 -> <<0, -1>>
      [] k % 8 = 4 -> <<-2, 0>>
      [] k % 8 = 5 -> <<0, -1>>
      [] k % 8 = 6 -> <<0, 0>>
      [] k % 8 = 7 -> <<0, 1>>

\* sin(k*pi/4)
Sin(k) == Cos(k - 2)

-----------------------------------------------------------------------------
(* THREE.Vector3 and THREE.Quaternion, as the callback uses them *)

\* new THREE.Vector3(x, y, z), of integers
Vector3(x, y, z) == [x |-> Num(x), y |-> Num(y), z |-> Num(z)]

\* Vector3.multiplyScalar(s), s an integer
multiplyScalar(v, s) ==
    [x |-> Scale(v.x, s), y |-> Scale(v.y, s), z |-> Scale(v.z, s)]

\* Quaternion.multiply(b): this = this * b
multiply(a, b) ==
    [x |-> Half(Plus(Plus(Times(a.x, b.w), Times(a.w, b.x)),
                     Minus(Times(a.y, b.z), Times(a.z, b.y)))),
     y |-> Half(Plus(Plus(Times(a.y, b.w), Times(a.w, b.y)),
                     Minus(Times(a.z, b.x), Times(a.x, b.z)))),
     z |-> Half(Plus(Plus(Times(a.z, b.w), Times(a.w, b.z)),
                     Minus(Times(a.x, b.y), Times(a.y, b.x)))),
     w |-> Half(Minus(Minus(Times(a.w, b.w), Times(a.x, b.x)),
                      Plus(Times(a.y, b.y), Times(a.z, b.z))))]

\* Vector3.applyQuaternion(q): q * v * conjugate(q)
applyQuaternion(v, q) ==
    LET ix == Half(Plus(Times(q.w, v.x), Minus(Times(q.y, v.z), Times(q.z, v.y))))
        iy == Half(Plus(Times(q.w, v.y), Minus(Times(q.z, v.x), Times(q.x, v.z))))
        iz == Half(Plus(Times(q.w, v.z), Minus(Times(q.x, v.y), Times(q.y, v.x))))
        iw == Half(Neg(Plus(Plus(Times(q.x, v.x), Times(q.y, v.y)), Times(q.z, v.z))))
    IN  [x |-> Half(Plus(Minus(Times(ix, q.w), Times(iw, q.x)),
                         Minus(Times(iz, q.y), Times(iy, q.z)))),
         y |-> Half(Plus(Minus(Times(iy, q.w), Times(iw, q.y)),
                         Minus(Times(ix, q.z), Times(iz, q.x)))),
         z |-> Half(Plus(Minus(Times(iz, q.w), Times(iw, q.z)),
                         Minus(Times(iy, q.x), Times(ix, q.y))))]

\* AxisAngleQuaternion(x, y, z, angle): the rotation by angle about the unit
\* axis (x, y, z); the angle in units of pi/2, so the half angle in units of pi/4
AxisAngleQuaternion(x, y, z, angle) ==
    [x |-> Scale(Sin(angle), x), y |-> Scale(Sin(angle), y),
     z |-> Scale(Sin(angle), z), w |-> Cos(angle)]

-----------------------------------------------------------------------------
(* The presets *)

\* an optional field: <<>> when absent, <<v>> when given
None == <<>>

Some(v) == <<v>>

\* the static list of render(); semimajor_axis in units of 1000/AU
Presets ==
    << [title |-> "Earth orbit", parent |-> "earth", semimajor_axis |-> 10,
        eccentricity |-> None, rotation |-> None, ascending_node |-> None],
       [title |-> "Moon orbit", parent |-> "moon", semimajor_axis |-> 3,
        eccentricity |-> None, rotation |-> None, ascending_node |-> None],
       [title |-> "Mars orbit", parent |-> "mars", semimajor_axis |-> 5,
        eccentricity |-> None, rotation |-> None, ascending_node |-> None],
       [title |-> "Venus orbit", parent |-> "venus", semimajor_axis |-> 10,
        eccentricity |-> None, rotation |-> None, ascending_node |-> Some(PI)],
       [title |-> "Jupiter orbit", parent |-> "jupiter", semimajor_axis |-> 100,
        eccentricity |-> None, rotation |-> None, ascending_node |-> None] >>

\* the names the presets look up
ParentNames == {Presets[i].parent : i \in DOMAIN Presets}

\* the values of the element type of the list (lines 74-75) the callback is
\* applied to when it is checked as a function of its preset
ScenarioInputs ==
    [title : {"Test orbit"}, parent : {"earth"}, semimajor_axis : {3, 10},
     eccentricity : {None} \cup {Some(e) : e \in 0..(EccScale - 1)},
     rotation : {None, Some(AxisAngleQuaternion(0, 0, 1, 0)),
                 Some(AxisAngleQuaternion(0, 0, 1, 1)),
                 Some(AxisAngleQuaternion(1, 0, 0, 1))},
     ascending_node : {None} \cup {Some(a) : a \in 0..3}]

\* x || 0. on an optional number: undefined and 0 are falsy
OrZero(x) == IF x = None \/ x[1] = 0 THEN 0 ELSE x[1]

\* the props of ScenarioSelectorControlProps
Props == {"onSelectScenario", "sendMessage", "setThrottle", "resetTime", "showEvent"}

\* CelestialBody.findBody(name): the body of that name, or null
findBody(name) == IF name \in bodies THEN Some(name) ELSE None

\* the bodies the caller may hold as the selected one, before any selection
InitialBodies ==
    [parent : {Some("sun")},
     position : {Vector3(1, 2, 3)},
     quaternion : {AxisAngleQuaternion(0, 0, 1, 0)},
     angularVelocity : {Vector3(0, 0, 0), Vector3(0, 0, 1)},
     totalDeltaV : 0..MaxDeltaV,
     ignitionCount : 0..MaxIgnition]


-----------------------------------------------------------------------------
(* The callback of a preset's onClick (lines 84-109), a statement at a time. *)
(* The program is single-threaded: while a callback runs (pc # "idle") no    *)
(* other handler does.                                                       *)

\* the statements with setOrbitingVelocity moved behind the two counters
StatementsVelocityLast ==
    << "locals", "findBody", "nullCheck", "setParent", "position", "quaternion",
       "quaternion.multiply", "angularVelocity", "totalDeltaV", "ignitionCount",
       "setOrbitingVelocity", "sendMessage", "setState", "return" >>

\* the statements with the position assigned ahead of the lookup's null check
StatementsPositionFirst ==
    << "locals", "findBody", "position", "nullCheck", "setParent", "quaternion",
       "quaternion.multiply", "angularVelocity", "setOrbitingVelocity",
       "totalDeltaV", "ignitionCount", "sendMessage", "setState", "return" >>

\* the statements of the callback in program order
Statements ==
    << "locals", "findBody", "nullCheck", "setParent", "position", "quaternion",
       "quaternion.multiply", "angularVelocity", "setOrbitingVelocity",
       "totalDeltaV", "ignitionCount", "sendMessage", "setState", "return" >>

\* the statement that follows statement s
After(s) ==
    LET i == CHOOSE j \in DOMAIN Statements : Statements[j] = s
    IN  Statements[i + 1]

\* the callback has done op with args
Log(op, args) == calls' = Append(calls, <<op, args>>)

\* the caller of props.onSelectScenario invokes the callback it holds with
\* the selected body
Invoke ==
    /\ pc = "idle"
    /\ callback # None
    /\ pc' = Statements[1]
    /\ scenario' = callback
    /\ entry' = Some([select_obj |-> select_obj, visible |-> visible,
                      scenario |-> callback[1].scenario])
    /\ calls' = <<>>
    /\ UNCHANGED <<visible, lastEvent, onSelectArgs, callback, bodies, select_obj,
                   ascending_node, eccentricity, rotation, parent, ret, propCalls>>

\* the scenario rotation with the two factors of the default the other way round
ScenarioRotationSwapped(s, node) ==
    IF s.rotation # None
    THEN s.rotation[1]
    ELSE multiply(AxisAngleQuaternion(0, 1, 0, PI),
                  AxisAngleQuaternion(0, 0, 1, node - PI \div 2))

\* the scenario rotation: scenario.rotation ?? (() => {...})()
ScenarioRotation(s, node) ==
    IF s.rotation # None
    THEN s.rotation[1]
    ELSE multiply(AxisAngleQuaternion(0, 0, 1, node - PI \div 2),
                  AxisAngleQuaternion(0, 1, 0, PI))

\* lines 85-91
Locals ==
    /\ pc = "locals"
    /\ pc' = After("locals")
    /\ ascending_node' = OrZero(scenario[1].scenario.ascending_node)
    /\ eccentricity' = OrZero(scenario[1].scenario.eccentricity)
    /\ rotation' = Some(ScenarioRotation(scenario[1].scenario, ascending_node'))
    /\ UNCHANGED <<visible, lastEvent, onSelectArgs, callback, bodies, select_obj,
                   scenario, parent, ret, calls, propCalls, entry>>

\* line 92
FindBody ==
    /\ pc = "findBody"
    /\ pc' = After("findBody")
    /\ parent' = findBody(scenario[1].scenario.parent)
    /\ Log("findBody", scenario[1].scenario.parent)
    /\ UNCHANGED <<visible, lastEvent, onSelectArgs, callback, bodies, select_obj,
                   scenario, ascending_node, eccentricity, rotation, ret,
                   propCalls, entry>>

\* lines 93-94 without the test: the callback goes on with a null parent
NullCheckDropped ==
    /\ pc = "nullCheck"
    /\ pc' = After("nullCheck")
    /\ UNCHANGED <<visible, lastEvent, onSelectArgs, callback, bodies, select_obj,
                   scenario, ascending_node, eccentricity, rotation, parent, ret,
                   calls, propCalls, entry>>

\* lines 93-94
NullCheck ==
    /\ pc = "nullCheck"
    /\ IF parent = None
       THEN pc' = "returned" /\ ret' = Some(FALSE)
       ELSE pc' = After("nullCheck") /\ ret' = ret
    /\ UNCHANGED <<visible, lastEvent, onSelectArgs, callback, bodies, select_obj,
                   scenario, ascending_node, eccentricity, rotation, parent,
                   calls, propCalls, entry>>

\* line 95; CelestialBody.setParent(parent) makes parent the body's parent
SetParent ==
    /\ pc = "setParent"
    /\ pc' = After("setParent")
    /\ select_obj' = [select_obj EXCEPT !.parent = parent]
    /\ Log("setParent", parent)
    /\ UNCHANGED <<visible, lastEvent, onSelectArgs, callback, bodies, scenario,
                   ascending_node, eccentricity, rotation, parent, ret,
                   propCalls, entry>>

\* lines 96-97 without multiplyScalar
ScenarioPositionUnscaled(s, ecc, rot) ==
    applyQuaternion(Vector3(0, EccScale - ecc, 0), rot)

\* the value of lines 96-97, in units of 1/EccScale
ScenarioPosition(s, ecc, rot) ==
    applyQuaternion(multiplyScalar(Vector3(0, EccScale - ecc, 0), s.semimajor_axis),
                    rot)

\* lines 96-97
Position ==
    /\ pc = "position"
    /\ pc' = After("position")
    /\ select_obj' = [select_obj EXCEPT !.position =
           ScenarioPosition(scenario[1].scenario, eccentricity, rotation[1])]
    /\ Log("position", select_obj'.position)
    /\ UNCHANGED <<visible, lastEvent, onSelectArgs, callback, bodies, scenario,
                   ascending_node, eccentricity, rotation, parent, ret,
                   propCalls, entry>>

\* line 98: the body's quaternion is a copy of rotation
QuaternionClone ==
    /\ pc = "quaternion"
    /\ pc' = After("quaternion")
    /\ select_obj' = [select_obj EXCEPT !.quaternion = rotation[1]]
    /\ Log("quaternion", rotation[1])
    /\ UNCHANGED <<visible, lastEvent, onSelectArgs, callback, bodies, scenario,
                   ascending_node, eccentricity, rotation, parent, ret,
                   propCalls, entry>>

\* line 99 had line 98 not cloned: the body's quaternion is the object rotation
\* (and the preset's rotation, when it gives one), and all are multiplied
QuaternionMultiplyShared ==
    /\ pc = "quaternion.multiply"
    /\ pc' = After("quaternion.multiply")
    /\ select_obj' = [select_obj EXCEPT !.quaternion =
           multiply(select_obj.quaternion, AxisAngleQuaternion(1, 0, 0, -(PI \div 2)))]
    /\ rotation' = Some(select_obj'.quaternion)
    /\ scenario' = IF scenario[1].scenario.rotation = None
                   THEN scenario
                   ELSE Some([scenario[1] EXCEPT !.scenario.rotation = rotation'])
    /\ callback' = scenario'
    /\ calls' = Append(calls, <<"quaternion.multiply", select_obj'.quaternion>>)
    /\ UNCHANGED <<visible, lastEvent, onSelectArgs, bodies, ascending_node,
                   eccentricity, parent, ret, propCalls, entry>>

\* line 99: multiplies the body's quaternion in place; rotation and the
\* preset's rotation are other objects
QuaternionMultiply ==
    /\ pc = "quaternion.multiply"
    /\ pc' = After("quaternion.multiply")
    /\ select_obj' = [select_obj EXCEPT !.quaternion =
           multiply(select_obj.quaternion, AxisAngleQuaternion(1, 0, 0, -(PI \div 2)))]
    /\ Log("quaternion.multiply", select_obj'.quaternion)
    /\ UNCHANGED <<visible, lastEvent, onSelectArgs, callback, bodies, scenario,
                   ascending_node, eccentricity, rotation, parent, ret,
                   propCalls, entry>>

\* lines 100-101 with line 101 not commented out: setThrottle(0)
AngularVelocityThrottle ==
    /\ pc = "angularVelocity"
    /\ pc' = After("angularVelocity")
    /\ select_obj' = [select_obj EXCEPT !.angularVelocity = Vector3(0, 0, 0)]
    /\ calls' = Append(calls, <<"angularVelocity", Vector3(0, 0, 0)>>)
    /\ propCalls' = propCalls \cup {"setThrottle"}
    /\ UNCHANGED <<visible, lastEvent, onSelectArgs, callback, bodies, scenario,
                   ascending_node, eccentricity, rotation, parent, ret, entry>>

\* lines 100-101
AngularVelocity ==
    /\ pc = "angularVelocity"
    /\ pc' = After("angularVelocity")
    /\ select_obj' = [select_obj EXCEPT !.angularVelocity = Vector3(0, 0, 0)]
    /\ Log("angularVelocity", Vector3(0, 0, 0))
    /\ UNCHANGED <<visible, lastEvent, onSelectArgs, callback, bodies, scenario,
                   ascending_node, eccentricity, rotation, parent, ret,
                   propCalls, entry>>

\* CelestialBody.setOrbitingVelocity(semimajor_axis, rotation) on body b: the
\* bodies it may leave.  What it writes to the body's counters is not fixed.
setOrbitingVelocity(b, semimajor_axis, rot) ==
    {[b EXCEPT !.totalDeltaV = dv, !.ignitionCount = ic] :
        dv \in 0..MaxDeltaV, ic \in 0..MaxIgnition}

\* line 102
SetOrbitingVelocity ==
    /\ pc = "setOrbitingVelocity"
    /\ pc' = After("setOrbitingVelocity")
    /\ select_obj' \in setOrbitingVelocity(select_obj,
                           scenario[1].scenario.semimajor_axis, rotation[1])
    /\ Log("setOrbitingVelocity",
           <<scenario[1].scenario.semimajor_axis, rotation[1]>>)
    /\ UNCHANGED <<visible, lastEvent, onSelectArgs, callback, bodies, scenario,
                   ascending_node, eccentricity, rotation, parent, ret,
                   propCalls, entry>>

\* line 103
TotalDeltaV ==
    /\ pc = "totalDeltaV"
    /\ pc' = After("totalDeltaV")
    /\ select_obj' = [select_obj EXCEPT !.totalDeltaV = 0]
    /\ Log("totalDeltaV", 0)
    /\ UNCHANGED <<visible, lastEvent, onSelectArgs, callback, bodies, scenario,
                   ascending_node, eccentricity, rotation, parent, ret,
                   propCalls, entry>>

\* lines 104-105
IgnitionCount ==
    /\ pc = "ignitionCount"
    /\ pc' = After("ignitionCount")
    /\ select_obj' = [select_obj EXCEPT !.ignitionCount = 0]
    /\ Log("ignitionCount", 0)
    /\ UNCHANGED <<visible, lastEvent, onSelectArgs, callback, bodies, scenario,
                   ascending_node, eccentricity, rotation, parent, ret,
                   propCalls, entry>>

\* the text of line 106 without the title
LoadedMessageNoTitle(s) == "Scenario Loaded!"

\* the text of line 106
LoadedMessage(s) == "Scenario " \o s.title \o " Loaded!"

\* line 106
SendMessage ==
    /\ pc = "sendMessage"
    /\ pc' = After("sendMessage")
    /\ propCalls' = propCalls \cup {"sendMessage"}
    /\ Log("sendMessage", LoadedMessage(scenario[1].scenario))
    /\ UNCHANGED <<visible, lastEvent, onSelectArgs, callback, bodies, select_obj,
                   scenario, ascending_node, eccentricity, rotation, parent, ret,
                   entry>>

\* line 107
SetState ==
    /\ pc = "setState"
    /\ pc' = After("setState")
    /\ visible' = FALSE
    /\ Log("setState", FALSE)
    /\ UNCHANGED <<lastEvent, onSelectArgs, callback, bodies, select_obj,
                   scenario, ascending_node, eccentricity, rotation, parent, ret,
                   propCalls, entry>>

\* line 108
Return ==
    /\ pc = "return"
    /\ pc' = "returned"
    /\ ret' = Some(TRUE)
    /\ UNCHANGED <<visible, lastEvent, onSelectArgs, callback, bodies, select_obj,
                   scenario, ascending_node, eccentricity, rotation, parent,
                   calls, propCalls, entry>>

\* the caller has the callback's result; the callback's frame is gone
Resume ==
    /\ pc = "returned"
    /\ pc' = "idle"
    /\ scenario' = None
    /\ ascending_node' = 0
    /\ eccentricity' = 0
    /\ rotation' = None
    /\ parent' = None
    /\ ret' = None
    /\ calls' = <<>>
    /\ entry' = None
    /\ UNCHANGED <<visible, lastEvent, onSelectArgs, callback, bodies, select_obj,
                   propCalls>>

Callback ==
    \/ Invoke
    \/ Locals
    \/ FindBody
    \/ NullCheck
    \/ SetParent
    \/ Position
    \/ QuaternionClone
    \/ QuaternionMultiply
    \/ AngularVelocity
    \/ SetOrbitingVelocity
    \/ TotalDeltaV
    \/ IgnitionCount
    \/ SendMessage
    \/ SetState
    \/ Return
    \/ Resume

-----------------------------------------------------------------------------
(* The component *)

\* every callback bound to the last preset of the list
BoundScenarioLast(idx) == Presets[Len(Presets)]

\* the preset the onClick of list item idx binds its callback to (lines 83, 110)
BoundScenario(idx) == Presets[idx]

\* onClick of list item idx (lines 83-110): one call of props.onSelectScenario
Click(idx) ==
    /\ pc = "idle"
    /\ lastEvent' = <<"onClick", idx>>
    /\ propCalls' = propCalls \cup {"onSelectScenario"}
    /\ onSelectArgs' = <<[key |-> idx, scenario |-> BoundScenario(idx)]>>
    /\ callback' = Some(onSelectArgs'[1])
    /\ UNCHANGED <<visible, bodies, select_obj, pc, frame>>

\* the container's onSetVisible (line 121)
OnSetVisible(v) ==
    /\ pc = "idle"
    /\ lastEvent' = <<"onSetVisible", v>>
    /\ visible' = v
    /\ UNCHANGED <<onSelectArgs, callback, bodies, select_obj, pc, propCalls, frame>>

\* setVisible(v) with its commented-out body at work
SetVisibleApplied(v) ==
    /\ pc = "idle"
    /\ lastEvent' = <<"setVisible", v>>
    /\ visible' = v
    /\ UNCHANGED <<onSelectArgs, callback, bodies, select_obj, pc, propCalls, frame>>

\* setVisible(v) (lines 125-130): its body is commented out
SetVisible(v) ==
    /\ pc = "idle"
    /\ lastEvent' = <<"setVisible", v>>
    /\ UNCHANGED <<visible, onSelectArgs, callback, bodies, select_obj, pc,
                   propCalls, frame>>

\* the state common to the initial states: constructed, nothing running
Constructed ==
    /\ visible = FALSE
    /\ lastEvent = <<"constructor">>
    /\ onSelectArgs = <<>>
    /\ pc = "idle"
    /\ scenario = None
    /\ ascending_node = 0
    /\ eccentricity = 0
    /\ rotation = None
    /\ parent = None
    /\ ret = None
    /\ calls = <<>>
    /\ propCalls = {}
    /\ entry = None
    /\ select_obj \in InitialBodies

Init ==
    /\ Constructed
    /\ callback = None
    /\ bodies \in SUBSET ParentNames

Next ==
    \/ \E idx \in DOMAIN Presets : Click(idx)
    \/ \E v \in BOOLEAN : OnSetVisible(v)
    \/ \E v \in BOOLEAN : SetVisible(v)
    \/ Callback

Spec == Init /\ [][Next]_vars

\* the callback as a function of its preset: bound to a preset of the list
\* (key its place in the list) or to any other value of the list's element
\* type (key 0), and invoked
InitScenario ==
    /\ Constructed
    /\ callback \in {Some([key |-> 0, scenario |-> s]) : s \in ScenarioInputs}
                     \cup {Some([key |-> i, scenario |-> BoundScenario(i)]) :
                              i \in DOMAIN Presets}
    /\ bodies \in {{}, ParentNames}

SpecScenario == InitScenario /\ [][Callback]_vars

-----------------------------------------------------------------------------
(* Properties *)

\* the squared length of a vector, as a numerator over 4
LengthSq(v) == Plus(Plus(Times(v.x, v.x), Times(v.y, v.y)), Times(v.z, v.z))

\* the entries of calls for op
CallsOf(op) == SelectSeq(calls, LAMBDA c : c[1] = op)

\* the operations of calls, in order
Ops == [i \in 1..Len(calls) |-> calls[i][1]]

\* the callback has returned true and the caller has not resumed yet
Succeeded == pc = "returned" /\ ret = Some(TRUE)

\* the preset as it was when the running callback was entered
EntryScenario == entry[1].scenario

\* the eccentricity of preset s, 0 when it gives none
EccentricityOf(s) == IF s.eccentricity = None THEN 0 ELSE s.eccentricity[1]

\* the ascending node of preset s, 0 when it gives none
AscendingNodeOf(s) == IF s.ascending_node = None THEN 0 ELSE s.ascending_node[1]

\* the rotation about Z by (node - pi/2) composed with the rotation about Y by pi
DefaultRotation(node) ==
    multiply(AxisAngleQuaternion(0, 0, 1, node - 1), AxisAngleQuaternion(0, 1, 0, 2))

\* the scenario rotation of preset s, as the specification words it
RotationOf(s) ==
    IF s.rotation # None THEN s.rotation[1] ELSE DefaultRotation(AscendingNodeOf(s))

\* (0, 1 - eccentricity, 0) scaled by the semimajor axis and rotated by q
PositionOf(s, q) ==
    applyQuaternion(
        multiplyScalar(Vector3(0, EccScale - EccentricityOf(s), 0), s.semimajor_axis), q)

\* C1: while a callback runs whose preset's parent findBody does not resolve,
\* the callback gets no further than the null check, returns false, leaves
\* every field of the selected body and the visible flag as they were on
\* entry, and calls nothing but findBody (no setParent, no
\* setOrbitingVelocity, no sendMessage).
C1_UnresolvedParentRejected ==
    (pc # "idle" /\ EntryScenario.parent \notin bodies) =>
        /\ pc \in {"locals", "findBody", "nullCheck", "returned"}
        /\ pc = "returned" => ret = Some(FALSE)
        /\ select_obj = entry[1].select_obj
        /\ visible = entry[1].visible
        /\ \A i \in DOMAIN calls : calls[i] = <<"findBody", EntryScenario.parent>>
        /\ Len(calls) <= 1

\* C1 witness: an open panel and a body moved by an earlier selection, after a
\* callback returned false
C1_Witness ==
    /\ pc = "returned"
    /\ ret = Some(FALSE)
    /\ visible
    /\ select_obj.parent # Some("sun")
    /\ Ops = <<"findBody">>

\* C2: when the callback of a clicked preset has run with a body and the
\* preset's parent resolves, it has returned true, has called sendMessage
\* exactly once, with 'Scenario ' + the clicked preset's title + ' Loaded!',
\* and visible is false.
C2_SuccessMessageAndClose ==
    (pc = "returned" /\ EntryScenario.parent \in bodies) =>
        /\ ret = Some(TRUE)
        /\ CallsOf("sendMessage") =
              << <<"sendMessage",
                   "Scenario " \o Presets[scenario[1].key].title \o " Loaded!">> >>
        /\ visible = FALSE

\* C2 witness: the Venus preset loaded from an open panel
C2_Witness ==
    /\ Succeeded
    /\ scenario[1].key = 4
    /\ entry[1].visible
    /\ calls[Len(calls) - 1] = <<"sendMessage", "Scenario Venus orbit Loaded!">>

\* C3: after a successful selection the body's position has the magnitude
\* semimajor_axis * (1 - eccentricity), eccentricity 0 when the preset gives
\* none, and is (0, 1 - eccentricity, 0) scaled by the semimajor axis and
\* rotated by the scenario rotation; for the presets of the list and for
\* every other preset whose rotation is a unit quaternion.
C3_PositionMagnitude ==
    Succeeded =>
        LET m == EntryScenario.semimajor_axis * (EccScale - EccentricityOf(EntryScenario))
        IN  /\ LengthSq(select_obj.position) = <<4 * m * m, 0>>
            /\ select_obj.position = PositionOf(EntryScenario, RotationOf(EntryScenario))

\* C3 witness: the Jupiter preset of the list loaded
C3_Witness ==
    /\ Succeeded
    /\ scenario[1].key = 5
    /\ select_obj.position = Vector3(EccScale * 100, 0, 0)

\* C4: after every successful selection the body's angularVelocity is the
\* zero vector, its totalDeltaV and ignitionCount are 0 whatever
\* setOrbitingVelocity wrote to them, and setOrbitingVelocity has been called
\* exactly once, with the preset's semimajor axis and the scenario rotation.
C4_ZeroedAfterOrbitingVelocity ==
    Succeeded =>
        /\ select_obj.angularVelocity = Vector3(0, 0, 0)
        /\ select_obj.totalDeltaV = 0
        /\ select_obj.ignitionCount = 0
        /\ CallsOf("setOrbitingVelocity") =
              << <<"setOrbitingVelocity",
                   <<Presets[scenario[1].key].semimajor_axis,
                     RotationOf(Presets[scenario[1].key])>> >> >>

\* C4 witness: a spinning body with used delta-v and ignitions, loaded
C4_Witness ==
    /\ Succeeded
    /\ entry[1].select_obj.angularVelocity # Vector3(0, 0, 0)
    /\ entry[1].select_obj.totalDeltaV = MaxDeltaV
    /\ entry[1].select_obj.ignitionCount = MaxIgnition
    /\ select_obj.totalDeltaV = 0

\* C5: each click calls onSelectScenario exactly once, with one callback
\* bound to the clicked list item's preset, and after a successful run of a
\* callback the body's parent is what findBody gives for the parent name of
\* the preset of the item that was clicked.
C5_OneSelectionPerClick ==
    /\ Len(onSelectArgs) = (IF "onSelectScenario" \in propCalls THEN 1 ELSE 0)
    /\ lastEvent[1] = "onClick" =>
          /\ onSelectArgs =
                <<[key |-> lastEvent[2], scenario |-> Presets[lastEvent[2]]]>>
          /\ callback = Some(onSelectArgs[1])
    /\ callback # None => callback[1].scenario = Presets[callback[1].key]
    /\ Succeeded =>
          /\ select_obj.parent # None
          /\ select_obj.parent = findBody(Presets[scenario[1].key].parent)

\* C5 witness: the Moon preset loaded on a body an earlier click put around
\* the earth
C5_Witness ==
    /\ Succeeded
    /\ scenario[1].key = 2
    /\ entry[1].select_obj.parent = Some("earth")
    /\ select_obj.parent = Some("moon")

\* C6: once the callback has computed it, the scenario rotation is the
\* preset's rotation when it gives one, and otherwise Z(ascending node - pi/2)
\* composed with Y(pi), the node 0 when the preset gives none; a preset with
\* no node, no eccentricity and no rotation puts the body at
\* semimajor_axis * (0, 1, 0) rotated by Z(-pi/2) * Y(pi), which is
\* (semimajor_axis, 0, 0); with a rotation given, the position does not
\* depend on the node.
C6_ScenarioRotation ==
    /\ pc \notin {"idle", "locals"} =>
          /\ rotation = Some(RotationOf(EntryScenario))
          /\ ascending_node = AscendingNodeOf(EntryScenario)
    /\ (Succeeded /\ EntryScenario.rotation = None
            /\ EntryScenario.ascending_node = None
            /\ EntryScenario.eccentricity = None) =>
          /\ rotation[1] = [x |-> <<0, 1>>, y |-> <<0, 1>>, z |-> <<0, 0>>, w |-> <<0, 0>>]
          /\ select_obj.position =
                Vector3(EccScale * EntryScenario.semimajor_axis, 0, 0)
    /\ (Succeeded /\ EntryScenario.rotation # None) =>
          select_obj.position = PositionOf(EntryScenario, EntryScenario.rotation[1])

\* C6 witness: a preset with a rotation and an ascending node of pi/2, loaded
C6_Witness ==
    /\ Succeeded
    /\ EntryScenario.rotation = Some(AxisAngleQuaternion(0, 0, 1, 1))
    /\ EntryScenario.ascending_node = Some(1)
    /\ rotation = EntryScenario.rotation

\* C7: after a successful selection the body's quaternion is the scenario
\* rotation composed with the rotation about X by -pi/2; the rotation passed
\* to setOrbitingVelocity is the scenario rotation that rotated the position,
\* not the body's quaternion; and while the callback runs the preset is as it
\* was on entry, so that running it again gives the same body.
C7_QuaternionOnCopy ==
    /\ pc # "idle" =>
          /\ scenario[1].scenario = EntryScenario
          /\ callback = scenario
    /\ Succeeded =>
          /\ select_obj.quaternion =
                multiply(RotationOf(EntryScenario), AxisAngleQuaternion(1, 0, 0, -1))
          /\ rotation = Some(RotationOf(EntryScenario))
          /\ Len(CallsOf("setOrbitingVelocity")) = 1
          /\ CallsOf("setOrbitingVelocity")[1][2][2] = RotationOf(EntryScenario)
          /\ select_obj.position = PositionOf(EntryScenario, RotationOf(EntryScenario))
          /\ scenario[1].key = 1 =>
                select_obj.quaternion =
                    [x |-> <<1, 0>>, y |-> <<1, 0>>, z |-> <<1, 0>>, w |-> <<1, 0>>]

\* C7 witness: a preset with the rotation X(pi/2), loaded a second time: the
\* body's quaternion is the identity again
C7_Witness ==
    /\ Succeeded
    /\ EntryScenario.rotation = Some(AxisAngleQuaternion(1, 0, 0, 1))
    /\ entry[1].select_obj.parent = Some("earth")
    /\ select_obj.quaternion = AxisAngleQuaternion(1, 0, 0, 0)
    /\ select_obj = entry[1].select_obj

\* the operations of a successful selection, in order
SelectionOrder ==
    << "findBody", "setParent", "position", "quaternion", "quaternion.multiply",
       "angularVelocity", "setOrbitingVelocity", "totalDeltaV", "ignitionCount",
       "sendMessage", "setState" >>

\* C8: what a callback has done is always a prefix of: findBody, setParent,
\* position, quaternion, angularVelocity, setOrbitingVelocity, totalDeltaV,
\* ignitionCount, sendMessage, setState; nothing follows findBody when it
\* gave null, a callback that has only looked up has changed nothing, and a
\* callback that returned true has done them all.
C8_OrderOfOperations ==
    /\ Len(calls) <= Len(SelectionOrder)
    /\ \A i \in DOMAIN calls : calls[i][1] = SelectionOrder[i]
    /\ (Len(calls) > 1 => parent # None)
    /\ (pc # "idle" /\ Len(calls) <= 1) =>
          select_obj = entry[1].select_obj /\ visible = entry[1].visible
    /\ (pc # "idle" /\ Len(calls) < Len(SelectionOrder)) => visible = entry[1].visible
    /\ Succeeded => Ops = SelectionOrder

\* C8 witness: a successful selection, all its operations done
C8_Witness ==
    /\ Succeeded
    /\ Len(calls) = 11
    /\ calls[7][1] = "setOrbitingVelocity"
    /\ calls[8] = <<"totalDeltaV", 0>>

\* C9: the panel starts hidden, and visible changes only in onSetVisible(v),
\* to v, or in the setState of a callback whose parent resolved, to false;
\* so no click shows a hidden panel, a click whose callback is not invoked or
\* whose parent is unresolved leaves visible alone, and setVisible(v) changes
\* nothing but the record of the last event.
C9_VisibleChanges ==
    /\ [](lastEvent = <<"constructor">> => visible = FALSE)
    /\ [][/\ visible' # visible =>
                \/ pc = "idle" /\ pc' = "idle" /\ lastEvent' = <<"onSetVisible", visible'>>
                \/ pc = "setState" /\ parent # None /\ visible' = FALSE
          /\ (pc = "idle" /\ pc' = "idle" /\ lastEvent'[1] \in {"onClick", "setVisible"}) =>
                UNCHANGED <<visible, select_obj, pc, frame>>
          /\ (pc = "idle" /\ pc' = "idle" /\ lastEvent'[1] = "setVisible") =>
                UNCHANGED <<onSelectArgs, callback, bodies, propCalls>>]_vars

\* C9 witness: setVisible(true) on a panel a selection has hidden leaves it
\* hidden
C9_Witness ==
    /\ lastEvent = <<"setVisible", TRUE>>
    /\ visible = FALSE
    /\ "sendMessage" \in propCalls

\* C10: no click and no callback ever invokes the props setThrottle,
\* resetTime or showEvent, which the component accepts: only
\* onSelectScenario and sendMessage are invoked.
C10_UnusedProps ==
    /\ propCalls \subseteq Props
    /\ propCalls \cap {"setThrottle", "resetTime", "showEvent"} = {}

\* C10 witness: a successful selection after which the props invoked are
\* onSelectScenario and sendMessage
C10_Witness ==
    /\ Succeeded
    /\ propCalls = {"onSelectScenario", "sendMessage"}

=============================================================================
